---- MODULE Spec2Model ----
(***************************************************************************)
(* Streaming attachment encryption of crypto/attachment.go.                *)
(*                                                                         *)
(* Two threads of control share one AttachmentProcessor: the caller       *)
(* (encryptAttachment, Process, Finish, DecryptAttachment) and the         *)
(* goroutine started at line 71, which runs SeparateKeyAndData on the      *)
(* read end of an io.Pipe.  The encryption front-end (openpgp.Encrypt)     *)
(* writes packets into the write end of the pipe.                          *)
(*                                                                         *)
(* A packet stream is a sequence of tokens [t, a, b]:                      *)
(*   K  encrypted session key packet (a = recipient key id, b = wrapped    *)
(*      session key)                                                       *)
(*   H  header of the symmetrically encrypted data packet (a = cipher)     *)
(*   L  partial length header announcing a content bytes                   *)
(*   D  one content byte of the data packet (a = the cipher byte)          *)
(*   E  final (zero) length header, end of the data packet                 *)
(*   X  a byte sequence that is no packet                                  *)
(***************************************************************************)
EXTENDS Integers, Sequences, FiniteSets, TLC

\* ---------------------------------------------------------------- bounds
MaxChunks == 2
MaxChunkLen == 2
MaxFinish == 2
ByteMod == 4

\* ------------------------------------------------------ program constants
LowMemThreshold == 1048576
NoGC == -1
CipherAES256 == 9

AES256 == "aes256"
NoErr == "nil"
ErrMalformed == "gopenpgp: malformed packet stream"
ErrTruncated == "gopenpgp: truncated packet stream"
ErrEncrypt == "openpgp: invalid recipient key"
ErrClosedPipe == "io: read/write on closed pipe"
ErrUnlock == "gopenpgp: cannot decrypt attachment: wrong passphrase"
ErrKeyIncorrect == "openpgp: incorrect key"
ErrMDC == "openpgp: MDC hash mismatch"

PlainBytes == {0, 1}
SessionKeys == {1, 2}
KeyIds == {1, 2}
Passphrases == {"good", "bad"}
Faults == {"none", "malformed", "truncated"}

Chunks == UNION {[1..n -> PlainBytes] : n \in 0..MaxChunkLen}

NilSplit == [isNil |-> TRUE, KeyPacket |-> <<>>, DataPacket |-> <<>>, Algo |-> ""]

Tok(t, a, b) == [t |-> t, a |-> a, b |-> b]

Add(x, y) == (x + y) % ByteMod
Sub(x, y) == (x + ByteMod - (y % ByteMod)) % ByteMod

RECURSIVE Flatten(_)
Flatten(ss) == IF ss = <<>> THEN <<>> ELSE Head(ss) \o Flatten(Tail(ss))

RECURSIVE SumSeq(_)
SumSeq(s) == IF s = <<>> THEN 0 ELSE Head(s) + SumSeq(Tail(s))

VARIABLES
  callerPc, mode, nProc, nFin, chunks, ctorErr, rets,
  apGC, apErr, apSplit, doneCount, finishGC,
  pubKey, feSk, fePos, feSum, fault,
  pipeBuf, curWrite, wClosed, written,
  bgPc, recv, sep, locSplit, splitError, crashed,
  dec

vars == <<callerPc, mode, nProc, nFin, chunks, ctorErr, rets,
          apGC, apErr, apSplit, doneCount, finishGC,
          pubKey, feSk, fePos, feSum, fault,
          pipeBuf, curWrite, wClosed, written,
          bgPc, recv, sep, locSplit, splitError, crashed, dec>>

callerVars == <<callerPc, mode, nProc, nFin, chunks, ctorErr, rets>>
apVars == <<apGC, apErr, apSplit, doneCount, finishGC>>
feVars == <<pubKey, feSk, fePos, feSum, fault>>
pipeVars == <<pipeBuf, curWrite, wClosed, written>>
bgVars == <<bgPc, recv, sep, locSplit, splitError>>

\* The separator's state before its first read.
SepInit == [st |-> "wantK", rem |-> 0, key |-> <<>>, data |-> <<>>, algo |-> 0]

NoDec == [done |-> FALSE, plain |-> <<>>, err |-> NoErr, kr |-> 0, pass |-> "",
          parsed |-> FALSE]

Init ==
  /\ callerPc = "start" /\ mode = "none" /\ nProc = 0 /\ nFin = 0
  /\ chunks = <<>> /\ ctorErr = NoErr /\ rets = <<>>
  /\ apGC = 0 /\ apErr = NoErr /\ apSplit = NilSplit /\ doneCount = 0
  /\ finishGC = 0
  /\ pubKey = 0 /\ feSk = 0 /\ fePos = 0 /\ feSum = 0 /\ fault = "none"
  /\ pipeBuf = <<>> /\ curWrite = <<>> /\ wClosed = FALSE /\ written = <<>>
  /\ bgPc = "none" /\ recv = <<>> /\ sep = SepInit /\ locSplit = NilSplit
  /\ splitError = NoErr /\ crashed = FALSE
  /\ dec = NoDec

\* ------------------------------------------------ encryption front-end
\* openpgp.Encrypt (line 83) writes the encrypted session key packet and the
\* header of the data packet (cipher from config, line 65) into the conduit.
EncryptHeader(sk, pk, f) ==
  << Tok("K", pk, Add(sk, pk)),
     IF f = "malformed" THEN Tok("X", 0, 0) ELSE Tok("H", CipherAES256, 0) >>

\* EncodeChunk with the keystream restarted at every chunk.
EncodeChunkNoPos(chunk, sk, pos) ==
  IF chunk = <<>> THEN <<>>
  ELSE <<Tok("L", Len(chunk), 0)>> \o
       [i \in 1..Len(chunk) |-> Tok("D", Add(chunk[i], sk + i), 0)]

\* (*ap.w).Write (line 31): a partial length header and the chunk's bytes,
\* each encrypted under the session key at its position in the stream.
EncodeChunk(chunk, sk, pos) ==
  IF chunk = <<>> THEN <<>>
  ELSE <<Tok("L", Len(chunk), 0)>> \o
       [i \in 1..Len(chunk) |-> Tok("D", Add(chunk[i], sk + pos + i), 0)]

\* The modification detection code over the plaintext written so far.
MDC(sum, n) == (sum + n) % ByteMod

\* (*ap.w).Close (line 41): the encrypted MDC and the final length header.
EncodeTrailer(sk, pos, sum, f) ==
  <<Tok("L", 1, 0), Tok("D", Add(MDC(sum, pos), sk + pos + 1), 0)>> \o
  (IF f = "truncated" THEN <<>> ELSE <<Tok("E", 0, 0)>>)

\* ----------------------------------------------------------------- io.Pipe
\* PipeWriteFails of a pipe whose closed write end still takes writes.
PipeWriteFailsNever == FALSE

\* A write on the pipe fails only when an end is closed; the goroutine never
\* closes the read end, so only the write end closed by Finish counts.
PipeWriteFails == wClosed

\* PipeWriteDone of a pipe that buffers: the write returns at once.
PipeWriteDoneBuffered == TRUE

\* io.Pipe has no buffer: a write returns when the reader has taken it all.
PipeWriteDone == pipeBuf = <<>>

\* PipeTake handing out the newest tokens first.
PipeTakeLast(buf, k) == SubSeq(buf, Len(buf) - k + 1, Len(buf))

\* The reader takes the first k tokens of the write in progress.
PipeTake(buf, k) == SubSeq(buf, 1, k)
PipeRest(buf, k) == SubSeq(buf, k + 1, Len(buf))

PipeWriteBegin(toks) ==
  /\ pipeBuf' = toks
  /\ curWrite' = toks
  /\ written' = written \o toks
  /\ UNCHANGED wClosed

\* ------------------------------------------------------ SeparateKeyAndData

SepStep(s, tok) ==
  CASE s.st = "wantK" /\ tok.t = "K" -> [s EXCEPT !.st = "wantH", !.key = <<tok>>]
    [] s.st = "wantH" /\ tok.t = "H" -> [s EXCEPT !.st = "body", !.algo = tok.a]
    [] s.st = "body" /\ s.rem = 0 /\ tok.t = "L" /\ tok.a > 0 -> [s EXCEPT !.rem = tok.a]
    [] s.st = "body" /\ s.rem = 0 /\ tok.t = "E" -> [s EXCEPT !.st = "end"]
    [] s.st = "body" /\ s.rem > 0 /\ tok.t = "D" ->
         [s EXCEPT !.rem = s.rem - 1, !.data = Append(s.data, tok.a)]
    [] OTHER -> [s EXCEPT !.st = "bad"]

RECURSIVE SepParse(_, _)
SepParse(s, toks) ==
  IF toks = <<>> THEN s ELSE SepParse(SepStep(s, Head(toks)), Tail(toks))

CipherName(c) == IF c = CipherAES256 THEN AES256 ELSE "unknown"

\* The result of the separation once the stream has ended.
SepResultAtEOF(s) ==
  IF s.st = "end"
  THEN [split |-> [isNil |-> FALSE, KeyPacket |-> s.key,
                   DataPacket |-> s.data, Algo |-> CipherName(s.algo)],
        err |-> NoErr]
  ELSE [split |-> NilSplit,
        err |-> IF s.st = "bad" THEN ErrMalformed ELSE ErrTruncated]

SepMalformed(s) == s.st = "bad"

\* ------------------------------------------------------ openpgp.ReadMessage
\* Decryption of the concatenation keyPacket \o dataPacket with the private
\* key kr: unwrap the session key, decrypt by position, verify the MDC.
DecryptBytes(data, sk) == [i \in 1..Len(data) |-> Sub(data[i], sk + i)]

ReadMessage(keyPacket, dataPacket, kr) ==
  IF keyPacket = <<>> \/ dataPacket = <<>> THEN [plain |-> <<>>, err |-> ErrMalformed]
  ELSE IF keyPacket[1].a # kr THEN [plain |-> <<>>, err |-> ErrKeyIncorrect]
  ELSE LET sk   == Sub(keyPacket[1].b, kr)
           all  == DecryptBytes(dataPacket, sk)
           body == SubSeq(all, 1, Len(all) - 1)
       IN IF all[Len(all)] = MDC(SumSeq(body), Len(body))
          THEN [plain |-> body, err |-> NoErr]
          ELSE [plain |-> <<>>, err |-> ErrMDC]

\* kr.Unlock (line 143): only the key ring's own passphrase unlocks it.
ErrPassphrase == "wrong passphrase"
Unlock(pass) == IF pass = "good" THEN NoErr ELSE ErrPassphrase

\* Line 144: the error of Unlock in the context of the attachment.
WrapDecrypt(e) == "gopenpgp: cannot decrypt attachment: " \o e

\* DecryptAttachmentResult without the test of line 143.
DecryptAttachmentResultNoUnlock(keyPacket, dataPacket, kr, pass) ==
  LET m == ReadMessage(keyPacket, dataPacket, kr)
  IN [plain |-> m.plain, err |-> m.err, parsed |-> TRUE]

\* Lines 141-166; parsed tells whether openpgp.ReadMessage was called.
DecryptAttachmentResult(keyPacket, dataPacket, kr, pass) ==
  IF Unlock(pass) # NoErr
  THEN [plain |-> <<>>, err |-> WrapDecrypt(Unlock(pass)), parsed |-> FALSE]
  ELSE LET m == ReadMessage(keyPacket, dataPacket, kr)
       IN [plain |-> m.plain, err |-> m.err, parsed |-> TRUE]

\* ------------------------------------------------------------------ caller
\* encryptAttachment, lines 55-79: the processor is built, done.Add(1), the
\* pipe is made and the goroutine is started.  gc = -1 is EncryptAttachment
\* (line 97), gc = 1<<20 is EncryptAttachmentLowMemory (line 116).  pk = 0 is
\* a key ring openpgp.Encrypt cannot encrypt to.
encryptAttachment(m, gc, pk) ==
  /\ ~crashed
  /\ callerPc = "start"
  /\ callerPc' = "ctor_encrypt"
  /\ mode' = m
  /\ apGC' = gc
  /\ doneCount' = doneCount + 1
  /\ pubKey' = pk
  /\ bgPc' = "sep"
  /\ UNCHANGED <<nProc, nFin, chunks, ctorErr, rets, apErr, apSplit, finishGC,
                 feSk, fePos, feSum, fault, pipeVars, recv, sep, locSplit,
                 splitError, crashed, dec>>

EncryptAttachment == \E pk \in KeyIds \cup {0} : encryptAttachment("oneshot", NoGC, pk)

EncryptAttachmentLowMemory ==
  \E pk \in KeyIds \cup {0} : encryptAttachment("stream", LowMemThreshold, pk)

\* Lines 83-86: openpgp.Encrypt fails, encryptAttachment returns the error.
EncryptFail ==
  /\ ~crashed
  /\ callerPc = "ctor_encrypt"
  /\ pubKey = 0
  /\ ctorErr' = ErrEncrypt
  /\ callerPc' = "ctor_failed"
  /\ UNCHANGED <<mode, nProc, nFin, chunks, rets, apVars, feVars, pipeVars,
                 bgVars, crashed, dec>>

\* Line 83: openpgp.Encrypt draws a session key and writes the key packet
\* and the data packet header into the pipe.
EncryptBegin ==
  /\ ~crashed
  /\ callerPc = "ctor_encrypt"
  /\ pubKey # 0
  /\ \E sk \in SessionKeys, f \in Faults :
       /\ feSk' = sk
       /\ fault' = f
       /\ PipeWriteBegin(EncryptHeader(sk, pubKey, f))
  /\ callerPc' = "ctor_write"
  /\ UNCHANGED <<mode, nProc, nFin, chunks, ctorErr, rets, apVars, pubKey,
                 fePos, feSum, bgVars, crashed, dec>>

\* Lines 87-90: the write has been taken, the processor is returned.
EncryptReturn ==
  /\ ~crashed
  /\ callerPc = "ctor_write"
  /\ PipeWriteDone
  /\ callerPc' = "ready"
  /\ UNCHANGED <<mode, nProc, nFin, chunks, ctorErr, rets, apVars, feVars,
                 pipeVars, bgVars, crashed, dec>>

\* EncryptAttachment (lines 101-102) calls Process once and then Finish once;
\* the caller of EncryptAttachmentLowMemory calls them as it likes.
CanProcess == IF mode = "oneshot" THEN nProc = 0 /\ nFin = 0 ELSE nProc < MaxChunks
CanFinish == IF mode = "oneshot" THEN nProc = 1 /\ nFin = 0 ELSE nFin < MaxFinish

\* ProcessWriteFailedPc of a Process that drops the error and returns.
ProcessWriteFailedPcSwallow == "ready"

\* Line 32: where the caller is after a failed write.
ProcessWriteFailedPc == "panicked"

\* Process, lines 30-34, up to the point where the write blocks on the pipe.
Process(chunk) ==
  /\ ~crashed
  /\ callerPc = "ready"
  /\ CanProcess
  /\ nProc' = nProc + 1
  /\ LET toks == EncodeChunk(chunk, feSk, fePos) IN
     IF toks = <<>>
     THEN /\ chunks' = Append(chunks, chunk)
          /\ UNCHANGED <<callerPc, fePos, feSum, pipeVars>>
     ELSE IF PipeWriteFails
     THEN /\ callerPc' = ProcessWriteFailedPc
          /\ UNCHANGED <<chunks, fePos, feSum, pipeVars>>
     ELSE /\ callerPc' = "proc_write"
          /\ chunks' = Append(chunks, chunk)
          /\ fePos' = fePos + Len(chunk)
          /\ feSum' = feSum + SumSeq(chunk)
          /\ PipeWriteBegin(toks)
  /\ UNCHANGED <<mode, nFin, ctorErr, rets, apVars, pubKey, feSk, fault,
                 bgVars, crashed, dec>>

\* Line 31 returns nil: the reader has taken the whole write.
ProcessReturn ==
  /\ ~crashed
  /\ callerPc = "proc_write"
  /\ PipeWriteDone
  /\ callerPc' = "ready"
  /\ UNCHANGED <<mode, nProc, nFin, chunks, ctorErr, rets, apVars, feVars,
                 pipeVars, bgVars, crashed, dec>>

\* Finish, lines 38-41: the error check, then (*ap.w).Close() starts writing
\* the trailer; its error is dropped.
FinishCheckErr ==
  /\ ~crashed
  /\ callerPc = "ready"
  /\ CanFinish
  /\ nFin' = nFin + 1
  /\ IF apErr # NoErr
     THEN /\ rets' = Append(rets, [split |-> NilSplit, err |-> apErr])
          /\ UNCHANGED <<callerPc, pipeVars>>
     ELSE IF PipeWriteFails
     THEN /\ callerPc' = "fin_closePipe"
          /\ UNCHANGED <<rets, pipeVars>>
     ELSE /\ callerPc' = "fin_closeW"
          /\ PipeWriteBegin(EncodeTrailer(feSk, fePos, feSum, fault))
          /\ UNCHANGED rets
  /\ UNCHANGED <<mode, nProc, chunks, ctorErr, apVars, feVars, bgVars,
                 crashed, dec>>

\* Line 41 returns.
FinishCloseWriterDone ==
  /\ ~crashed
  /\ callerPc = "fin_closeW"
  /\ PipeWriteDone
  /\ callerPc' = "fin_closePipe"
  /\ UNCHANGED <<mode, nProc, nFin, chunks, ctorErr, rets, apVars, feVars,
                 pipeVars, bgVars, crashed, dec>>

\* FinishClosePipe of a Finish that does not wait for line 41 to return.
FinishClosePipeEarly ==
  /\ ~crashed
  /\ callerPc \in {"fin_closeW", "fin_closePipe"}
  /\ wClosed' = TRUE
  /\ callerPc' = "fin_wait"
  /\ UNCHANGED <<mode, nProc, nFin, chunks, ctorErr, rets, apVars, feVars,
                 pipeBuf, curWrite, written, bgVars, crashed, dec>>

\* Line 42: (*ap.pipe).Close().
FinishClosePipe ==
  /\ ~crashed
  /\ callerPc = "fin_closePipe"
  /\ wClosed' = TRUE
  /\ callerPc' = "fin_wait"
  /\ UNCHANGED <<mode, nProc, nFin, chunks, ctorErr, rets, apVars, feVars,
                 pipeBuf, curWrite, written, bgVars, crashed, dec>>

\* WaitReturns of a Finish that does not join.
WaitReturnsNoJoin == TRUE

\* Line 43: ap.done.Wait() returns when the counter is zero.
WaitReturns == doneCount = 0

FinishWait ==
  /\ ~crashed
  /\ callerPc = "fin_wait"
  /\ WaitReturns
  /\ callerPc' = "fin_gc"
  /\ UNCHANGED <<mode, nProc, nFin, chunks, ctorErr, rets, apVars, feVars,
                 pipeVars, bgVars, crashed, dec>>

\* GCTriggered taking only 0 for "disabled".
GCTriggeredNonZero(gc) == gc # 0

\* Line 44: the threshold under which Finish calls runtime.GC().
GCTriggered(gc) == gc > 0

\* FinishResult of a Finish whose reclamation pass loses the split.
FinishResultReclaimed(gc) ==
  [split |-> IF gc > 0 THEN NilSplit ELSE apSplit, err |-> NoErr]

\* Line 47: what Finish returns on a processor of threshold gc.
FinishResult(gc) == [split |-> apSplit, err |-> NoErr]

\* Lines 44-47: runtime.GC() when the threshold is positive, then the split.
FinishReturn ==
  /\ ~crashed
  /\ callerPc = "fin_gc"
  /\ finishGC' = IF GCTriggered(apGC) THEN finishGC + 1 ELSE finishGC
  /\ rets' = Append(rets, FinishResult(apGC))
  /\ callerPc' = "ready"
  /\ UNCHANGED <<mode, nProc, nFin, chunks, ctorErr, apGC, apErr, apSplit,
                 doneCount, feVars, pipeVars, bgVars, crashed, dec>>

\* DecryptAttachment on the two packets of a split.
DecryptSplit(split, kr, pass) ==
  DecryptAttachmentResult(split.KeyPacket, split.DataPacket, kr, pass)

\* DecryptAttachment, lines 137-167, on the split of the last Finish.
DecryptAttachment(kr, pass) ==
  /\ ~crashed
  /\ callerPc = "ready"
  /\ rets # <<>>
  /\ ~dec.done
  /\ LET r == rets[Len(rets)] IN
     /\ r.err = NoErr
     /\ ~r.split.isNil
     /\ LET d == DecryptSplit(r.split, kr, pass)
        IN dec' = [done |-> TRUE, plain |-> d.plain, err |-> d.err,
                   kr |-> kr, pass |-> pass, parsed |-> d.parsed]
  /\ UNCHANGED <<callerVars, apVars, feVars, pipeVars, bgVars, crashed>>

\* ------------------------------------------- goroutine of lines 71-79
\* Line 73, inside SeparateKeyAndData: one read from the pipe.  A sequence
\* that is no packet ends the separation at once with an error and no split.
BgRead(k) ==
  /\ ~crashed
  /\ bgPc = "sep"
  /\ pipeBuf # <<>>
  /\ k \in 1..Len(pipeBuf)
  /\ LET got == SepParse(sep, PipeTake(pipeBuf, k)) IN
     /\ recv' = recv \o PipeTake(pipeBuf, k)
     /\ sep' = got
     /\ pipeBuf' = PipeRest(pipeBuf, k)
     /\ IF SepMalformed(got)
        THEN /\ bgPc' = "check"
             /\ locSplit' = NilSplit
             /\ splitError' = ErrMalformed
        ELSE UNCHANGED <<bgPc, locSplit, splitError>>
  /\ UNCHANGED <<callerVars, apVars, feVars, curWrite, wClosed, written,
                 crashed, dec>>

\* Line 73: the read sees the closed write end; SeparateKeyAndData returns.
BgEOF ==
  /\ ~crashed
  /\ bgPc = "sep"
  /\ pipeBuf = <<>>
  /\ wClosed
  /\ LET r == SepResultAtEOF(sep) IN
     /\ locSplit' = r.split
     /\ splitError' = r.err
  /\ bgPc' = "check"
  /\ UNCHANGED <<callerVars, apVars, feVars, pipeVars, recv, sep, crashed, dec>>

\* Line 74: the condition under which the goroutine assigns the error.
ErrGuard == apErr # NoErr

\* Lines 74-76.
BgCheckErr ==
  /\ ~crashed
  /\ bgPc = "check"
  /\ apErr' = IF ErrGuard THEN splitError ELSE apErr
  /\ bgPc' = "algo"
  /\ UNCHANGED <<callerVars, apGC, apSplit, doneCount, finishGC, feVars,
                 pipeVars, recv, sep, locSplit, splitError, crashed, dec>>

\* Line 77: split.Algo = constants.AES256; a nil split panics.
BgSetAlgo ==
  /\ ~crashed
  /\ bgPc = "algo"
  /\ IF locSplit.isNil
     THEN /\ bgPc' = "panicking"
          /\ UNCHANGED locSplit
     ELSE /\ bgPc' = "store"
          /\ locSplit' = [locSplit EXCEPT !.Algo = AES256]
  /\ UNCHANGED <<callerVars, apVars, feVars, pipeVars, recv, sep, splitError,
                 crashed, dec>>

\* Line 78.
BgStoreSplit ==
  /\ ~crashed
  /\ bgPc = "store"
  /\ apSplit' = locSplit
  /\ bgPc' = "defer"
  /\ UNCHANGED <<callerVars, apGC, apErr, doneCount, finishGC, feVars,
                 pipeVars, recv, sep, locSplit, splitError, crashed, dec>>

\* Line 72: the deferred done.Done() runs when the function returns and
\* also while a panic unwinds it.
BgDone ==
  /\ ~crashed
  /\ bgPc \in {"defer", "panicking"}
  /\ doneCount' = doneCount - 1
  /\ bgPc' = IF bgPc = "defer" THEN "exited" ELSE "crashed"
  /\ UNCHANGED <<callerVars, apGC, apErr, apSplit, finishGC, feVars,
                 pipeVars, recv, sep, locSplit, splitError, crashed, dec>>

\* A panic nobody recovers ends the program, some time after the deferred
\* calls of the goroutine have run; nothing runs in a program that has ended.
ProgramCrash ==
  /\ bgPc = "crashed"
  /\ ~crashed
  /\ crashed' = TRUE
  /\ UNCHANGED <<callerVars, apVars, feVars, pipeVars, bgVars, dec>>

Next ==
  \/ EncryptAttachment
  \/ EncryptAttachmentLowMemory
  \/ EncryptFail
  \/ EncryptBegin
  \/ EncryptReturn
  \/ \E c \in Chunks : Process(c)
  \/ ProcessReturn
  \/ FinishCheckErr
  \/ FinishCloseWriterDone
  \/ FinishClosePipe
  \/ FinishWait
  \/ FinishReturn
  \/ \E kr \in KeyIds, pass \in Passphrases : DecryptAttachment(kr, pass)
  \/ \E k \in 1..(MaxChunkLen + 3) : BgRead(k)
  \/ BgEOF
  \/ BgCheckErr
  \/ BgSetAlgo
  \/ BgStoreSplit
  \/ BgDone
  \/ ProgramCrash

Spec == Init /\ [][Next]_vars

\* The Go scheduler runs every goroutine that can run: the steps of the
\* goroutine of line 71 and the steps by which a call of the caller goes on
\* once it is no longer blocked.  Which call the caller makes next, and
\* whether it makes one, is up to the caller.
Background ==
  \/ \E k \in 1..(MaxChunkLen + 3) : BgRead(k)
  \/ BgEOF
  \/ BgCheckErr
  \/ BgSetAlgo
  \/ BgStoreSplit
  \/ BgDone
  \/ ProgramCrash

CallerContinues ==
  \/ EncryptFail
  \/ EncryptBegin
  \/ EncryptReturn
  \/ ProcessReturn
  \/ FinishCloseWriterDone
  \/ FinishClosePipe
  \/ FinishWait
  \/ FinishReturn

\* Each of the two is sequential (at most one of its steps can be taken in a
\* state), so fairness of the disjunction is fairness of every step.
Fairness == WF_vars(Background) /\ WF_vars(CallerContinues)

SpecFair == Spec /\ Fairness

TypeOK ==
  /\ callerPc \in {"start", "ctor_encrypt", "ctor_failed", "ctor_write", "ready",
                   "proc_write", "panicked", "fin_closeW", "fin_closePipe",
                   "fin_wait", "fin_gc"}
  /\ bgPc \in {"none", "sep", "check", "algo", "store", "defer", "panicking",
               "exited", "crashed"}
  /\ doneCount \in 0..1
  /\ nProc \in 0..MaxChunks /\ nFin \in 0..MaxFinish

\* ------------------------------------------------------------- properties
BgTerminated == bgPc \in {"exited", "crashed"}
BgPastCheck == bgPc \in {"algo", "store", "defer", "panicking", "exited", "crashed"}
CallerWriting == callerPc \in {"ctor_write", "proc_write", "fin_closeW"}

\* The content bytes of the data packet in a token stream.
RECURSIVE StreamData(_)
StreamData(toks) ==
  IF toks = <<>> THEN <<>>
  ELSE (IF Head(toks).t = "D" THEN <<Head(toks).a>> ELSE <<>>) \o StreamData(Tail(toks))

IsSuffix(s, t) == Len(s) <= Len(t) /\ s = SubSeq(t, Len(t) - Len(s) + 1, Len(t))

\* C1: whatever the chunks given to Process were, DecryptAttachment of the
\* split returned by Finish, with the key ring of the recipient and its
\* passphrase, succeeds and returns the concatenation of the chunks.
RoundTrip ==
  (dec.done /\ dec.kr = pubKey /\ dec.pass = "good")
    => (dec.err = NoErr /\ dec.plain = Flatten(chunks))

RoundTripWitness ==
  /\ dec.done /\ dec.kr = pubKey /\ dec.pass = "good"
  /\ mode = "stream"
  /\ Len(chunks) = 2 /\ Len(chunks[1]) = 1 /\ Len(chunks[2]) = 2
  /\ dec.plain = <<1, 0, 1>>

\* C2: when Finish has returned without error, the goroutine has called
\* done.Done() and has ended.
FinishJoins ==
  \A i \in 1..Len(rets) :
    rets[i].err = NoErr => (doneCount = 0 /\ BgTerminated)

FinishJoinsWitness ==
  /\ rets # <<>> /\ rets[1].err = NoErr /\ ~rets[1].split.isNil
  /\ bgPc = "exited"

\* C3: when SeparateKeyAndData has returned an error, the goroutine stores
\* it in ap.err, and Finish returns that error and no split.
SplitErrorSurfaces ==
  /\ (BgPastCheck /\ splitError # NoErr) => apErr = splitError
  /\ splitError # NoErr =>
       \A i \in 1..Len(rets) : rets[i].err = splitError /\ rets[i].split.isNil

\* C4: once the goroutine has signalled completion, exactly one of ap.split
\* and ap.err is set.
ExactlyOneOutcome ==
  (BgTerminated /\ doneCount = 0) => ((~apSplit.isNil) # (apErr # NoErr))

\* C5: when encryptAttachment has returned the error of openpgp.Encrypt, no
\* goroutine of that processor is running or blocked on the pipe.
NoTaskAfterFailedConstruction ==
  callerPc = "ctor_failed" => bgPc \in {"none", "exited", "crashed"}

\* C6: Finish reads ap.err and ap.split only after the join, when the
\* goroutine has ended and can no longer write them.
FinishReadsAfterJoin ==
  [][ /\ (callerPc = "ready" /\ nFin' = nFin + 1) => (doneCount = 0 /\ BgTerminated)
      /\ (callerPc = "fin_gc" /\ callerPc' = "ready") => (doneCount = 0 /\ BgTerminated)
    ]_vars

\* C7: the bytes of the chunks enter the pipe in the order of the Process
\* calls, and the goroutine has read exactly a prefix of what was written:
\* what it has read followed by what is still in the pipe is what was written.
ConduitOrder ==
  /\ recv \o pipeBuf = written
  /\ feSk # 0 =>
       LET p == DecryptBytes(StreamData(written), feSk)
           n == Len(Flatten(chunks))
       IN Len(p) >= n /\ SubSeq(p, 1, n) = Flatten(chunks)

ConduitOrderWitness ==
  /\ chunks = << <<0, 1>>, <<1>> >>
  /\ pipeBuf = <<>>
  /\ Len(StreamData(recv)) = 3
  /\ callerPc = "ready"

\* C8: the pipe holds nothing but the unread rest of the write in progress:
\* data is in the pipe only while the caller is inside a write, it is a
\* suffix of that write, and when no write is in progress the goroutine has
\* read everything that was ever written.
Backpressure ==
  /\ pipeBuf # <<>> => CallerWriting
  /\ IsSuffix(pipeBuf, curWrite)
  /\ ~CallerWriting => recv = written

BackpressureWitness ==
  /\ callerPc = "proc_write"
  /\ pipeBuf # <<>>
  /\ Len(pipeBuf) < Len(curWrite)
  /\ bgPc = "sep"

\* C10: a Process call whose write fails leaves the caller in the panic, and
\* from there no Process or Finish of the session returns anything.
WriteFailureIsFatal ==
  [][ /\ (callerPc = "ready" /\ nProc' = nProc + 1 /\ PipeWriteFails /\ chunks' = chunks)
         => callerPc' = "panicked"
      /\ callerPc = "panicked"
         => (callerPc' = "panicked" /\ rets' = rets /\ apSplit' = apSplit
             /\ nProc' = nProc /\ nFin' = nFin)
    ]_vars

WriteFailureIsFatalWitness ==
  /\ callerPc = "panicked"
  /\ wClosed
  /\ rets # <<>>

\* C11: DecryptAttachment with a passphrase that does not unlock the key
\* ring returns the error of Unlock wrapped as "cannot decrypt attachment"
\* and no plaintext, and the message has not been given to ReadMessage.
WrongPassphraseFails ==
  (dec.done /\ dec.pass # "good")
    => (dec.err = ErrUnlock /\ dec.plain = <<>> /\ ~dec.parsed)

WrongPassphraseFailsWitness ==
  /\ dec.done /\ dec.pass = "bad" /\ dec.kr = pubKey
  /\ Flatten(chunks) = <<1, 1>>
  /\ dec.err = ErrUnlock

LowMemoryParityOneShot ==
  /\ mode = "oneshot" /\ apGC = NoGC /\ finishGC = 0
  /\ Len(rets) = 1 /\ ~rets[1].split.isNil
  /\ chunks = << <<1, 0>> >>
  /\ DecryptSplit(rets[1].split, pubKey, "good").plain = <<1, 0>>

\* C16: Finish runs the reclamation pass exactly when the threshold is
\* positive, and only at its return, after the join; the threshold is 1 MiB
\* for EncryptAttachmentLowMemory and not positive for EncryptAttachment.
ReclamationOnlyInLowMemory ==
  [][ /\ finishGC' # finishGC
         => (apGC > 0 /\ callerPc = "fin_gc" /\ doneCount = 0
             /\ finishGC' = finishGC + 1)
      /\ (callerPc = "fin_gc" /\ callerPc' = "ready" /\ apGC > 0)
         => finishGC' = finishGC + 1
      /\ mode' = "stream" => apGC' = 1048576
      /\ mode' = "oneshot" => (apGC' <= 0 /\ finishGC' = 0)
    ]_vars

ReclamationOnlyInLowMemoryWitness ==
  /\ mode = "stream" /\ apGC = 1048576
  /\ finishGC = 2 /\ Len(rets) = 2
  /\ doneCount = 0

\* C13: every split Finish returns with a nil error is present and has a
\* non-empty key packet and a non-empty data packet.
SuccessHasBothPackets ==
  \A i \in 1..Len(rets) :
    rets[i].err = NoErr =>
      /\ ~rets[i].split.isNil
      /\ rets[i].split.KeyPacket # <<>>
      /\ rets[i].split.DataPacket # <<>>

\* C15: the write end of the pipe is closed only by line 42, when line 41
\* has returned and everything the front-end wrote at its Close, the trailer
\* included, has been read; Finish waits only on a closed pipe and returns
\* the split only after the join.
FinishOrder ==
  [][ /\ (~wClosed /\ wClosed')
         => /\ callerPc = "fin_closePipe" /\ callerPc' = "fin_wait"
            /\ pipeBuf = <<>>
            /\ curWrite = EncodeTrailer(feSk, fePos, feSum, fault)
            /\ IsSuffix(curWrite, recv)
      /\ (callerPc' = "fin_wait" /\ callerPc # "fin_wait")
         => (wClosed' /\ callerPc = "fin_closePipe")
      /\ (callerPc' = "fin_gc" /\ callerPc # "fin_gc")
         => (callerPc = "fin_wait" /\ wClosed /\ doneCount = 0)
      /\ Len(rets') > Len(rets)
         => (callerPc = "fin_gc" /\ doneCount = 0 /\ rets'[Len(rets')].split = apSplit)
    ]_vars

FinishOrderWitness ==
  /\ callerPc = "fin_wait" /\ wClosed /\ doneCount = 1
  /\ nFin = 1 /\ fault = "none"
  /\ Len(recv) >= 3 /\ recv[Len(recv)].t = "E"
  /\ chunks # <<>>

\* C17: the goroutine never panics: it never reaches line 77 with a nil
\* split.
NoBackgroundCrash == bgPc \notin {"panicking", "crashed"} /\ ~crashed

\* C18: the caller is never blocked in a write on the pipe when the
\* goroutine has left SeparateKeyAndData and will read no more.
NoWriterLeftBlocked ==
  ~(CallerWriting /\ pipeBuf # <<>> /\ bgPc \notin {"none", "sep"})

InFinish == callerPc \in {"fin_closeW", "fin_closePipe", "fin_wait", "fin_gc"}

\* C14: under fair scheduling every call of Finish on a processor that
\* encryptAttachment returned comes back: the pipe is closed, the goroutine
\* sees the end of the stream and signals completion, and Finish returns.
FinishEventuallyReturns == InFinish ~> (callerPc = "ready")

\* The same on a stream the separator accepts.
FinishReturnsOnGoodStream == (InFinish /\ fault = "none") ~> (callerPc = "ready")

\* C19 as claimed: every Process call made once Finish has closed the pipe
\* ends in the panic, and leaves the captured split as it was.
ProcessAfterFinishAlwaysFails ==
  [][ (callerPc = "ready" /\ nProc' = nProc + 1 /\ wClosed)
        => (callerPc' = "panicked" /\ apSplit' = apSplit) ]_vars

\* C19 as amended: a Process call made once Finish has closed the pipe ends
\* in the panic when its chunk is not empty, and returns without writing
\* when it is empty; in both cases nothing enters the pipe and neither the
\* captured split nor what Finish returned changes.
ProcessAfterFinish ==
  [][ (callerPc = "ready" /\ nProc' = nProc + 1 /\ wClosed)
        => /\ IF chunks' = chunks
              THEN callerPc' = "panicked"
              ELSE chunks' = Append(chunks, <<>>) /\ callerPc' = "ready"
           /\ written' = written /\ recv' = recv /\ pipeBuf' = pipeBuf
           /\ apSplit' = apSplit /\ rets' = rets ]_vars

ProcessAfterFinishWitness ==
  /\ callerPc = "panicked"
  /\ Len(rets) = 1 /\ ~rets[1].split.isNil /\ apSplit = rets[1].split
  /\ Len(chunks) = 1 /\ nProc = 2

\* C20: a Finish called after a Finish that returned without error does not
\* block: it writes nothing into the closed pipe and its Wait finds the
\* counter at zero; it returns what the first returned, and ap.split and
\* ap.err are what they were at the first return.
SecondFinishSame ==
  /\ \A i, j \in 1..Len(rets) : rets[i] = rets[j]
  /\ \A i \in 1..Len(rets) : rets[i].split = apSplit /\ rets[i].err = apErr
  /\ rets # <<>> => (callerPc # "fin_closeW" /\ doneCount = 0 /\ wClosed)

SecondFinishSameWitness ==
  /\ Len(rets) = 2 /\ nFin = 2 /\ callerPc = "ready"
  /\ ~rets[1].split.isNil
  /\ rets[2].split.DataPacket # <<>>

====
